---- MODULE Spec2Model ----
(***************************************************************************)
(* A model of build.py, the portable-browser build pipeline:               *)
(* BrowserBuilder.__init__, fetch_latest_version, check_remote_release,    *)
(* download, extract, inject, add_launcher, create_archive and the         *)
(* __main__ block that sequences them.  The state is the builder's fields, *)
(* the workspace on disk, the environment the run reads, and the position  *)
(* of the run in __main__.                                                 *)
(*                                                                         *)
(* Five specifications share the same actions:                             *)
(*   Spec         the whole run, from argument parsing to process exit;    *)
(*   SpecExtract  extract() applied to every installer payload in Trees;   *)
(*   SpecInject   inject() applied to every application directory in       *)
(*                CoreDirs and every support-file set in Libs;             *)
(*   SpecRerun    runs that follow one another in one workspace;           *)
(*   SpecRace     two processes running at once in one workspace.          *)
(***************************************************************************)
EXTENDS Integers, Sequences, FiniteSets, TLC

VARIABLES
    args,          \* argparse result: browser, version, url, launcher
    environ,       \* os.environ: the set of variables that are set
    libportable,   \* the directory args.libportable: NoDir or name -> content
    launcher_file, \* whether the file named by args.launcher exists
    version,       \* self.version
    url,           \* self.url
    temp_dir,      \* <workspace>/temp_build exists
    installer,     \* temp_build/<installer_name>: NoFile or its payload
    extracted,     \* temp_build/extracted: NoDir or the tree it holds
    output_dir,    \* <workspace>/output exists
    core,          \* output/core: NoDir or name -> content of its plain files
    out_launcher,  \* output/<launcher> was copied
    archive,       \* <workspace>/<archive_name>: NoFile or what it was built from
    github_output, \* lines appended to the file $GITHUB_OUTPUT
    pc,            \* the next statement of __main__ / run()
    exit_code,     \* the process exit status, Running until it exits
    stages,        \* the methods entered so far, in order
    requests,      \* the HTTP requests issued so far, in order
    rmtree_calls,  \* the directories shutil.rmtree was called on
    sevenz,        \* exit results of the archive-tool processes run, per stage
    source_core,   \* extract's local source_core (path inside the scratch dir)
    inject_log,    \* inject's locals: core_dir at entry, after the copy, helper run
    other          \* a second build.py process in the same workspace: its
                   \* builder fields and position while it is not the one
                   \* taking a step; NoProcess when there is none

vars == <<args, environ, libportable, launcher_file, version, url, temp_dir,
          installer, extracted, output_dir, core, out_launcher, archive,
          github_output, pc, exit_code, stages, requests, rmtree_calls, sevenz,
          source_core, inject_log, other>>

----------------------------------------------------------------------------
(* Bounds of the model.                                                    *)

\* Directories in an installer payload, the scratch root included.
MaxDirs == 2
\* Plain files per directory of an installer payload.
MaxFiles == 1
\* Plain files in the portability-support directory.
MaxLibFiles == 2

----------------------------------------------------------------------------
(* Python values.                                                          *)

None == "<None>"
Running == "<running>"

\* bool(x) for the optional strings of the program.
Truthy(x) == x # None /\ x # ""

\* str(x) inside an f-string.
Str(x) == IF x = None THEN "None" ELSE x

UpperLetters == "ABCDEFGHIJKLMNOPQRSTUVWXYZ"
LowerLetters == "abcdefghijklmnopqrstuvwxyz"

\* The lower-case letter of every upper-case letter.
LowerOf ==
    [c \in {SubSeq(UpperLetters, i, i) : i \in 1..Len(UpperLetters)} |->
        LET i == CHOOSE j \in 1..Len(UpperLetters) : SubSeq(UpperLetters, j, j) = c
        IN  SubSeq(LowerLetters, i, i)]

\* str.lower() on one character.
LowerChar(c) == IF c \in DOMAIN LowerOf THEN LowerOf[c] ELSE c

\* str.lower().
RECURSIVE Lower(_)
Lower(s) ==
    IF s = "" THEN ""
    ELSE LowerChar(SubSeq(s, 1, 1)) \o Lower(SubSeq(s, 2, Len(s)))

\* Path.glob("<prefix>*<suffix>") applied to one file name.
Glob(prefix, suffix, name) ==
    /\ Len(name) >= Len(prefix) + Len(suffix)
    /\ SubSeq(name, 1, Len(prefix)) = prefix
    /\ SubSeq(name, Len(name) - Len(suffix) + 1, Len(name)) = suffix

----------------------------------------------------------------------------
(* Directories of plain files: a function from file names to contents.     *)
(* A content records where the bytes came from and under which name.       *)

EmptyFiles == [n \in {} |-> None]

Content(origin, name) == [origin |-> origin, name |-> name]

\* shutil.copy2 / shutil.move onto a name: create or overwrite.
PutFile(d, n, c) == [x \in (DOMAIN d) \cup {n} |-> IF x = n THEN c ELSE d[x]]

\* unlink of every file of S that is there.
RemoveFiles(d, S) == [x \in (DOMAIN d) \ S |-> d[x]]

\* shutil.move(src, dst) of a plain file inside one directory.
MoveFile(d, src, dst) == RemoveFiles(PutFile(d, dst, d[src]), {src})

\* Copy of every file of directory s into directory d, overwriting by name.
CopyAll(s, d) ==
    [x \in (DOMAIN d) \cup (DOMAIN s) |-> IF x \in DOMAIN s THEN s[x] ELSE d[x]]

\* The files of an extracted directory as they arrive in output/core.
FromInstaller(names) == [n \in names |-> Content("inst", n)]

\* A directory that exists with these plain files, and one that does not exist.
Dir(files) == [exists |-> TRUE, files |-> files]
NoDir == [exists |-> FALSE, files |-> EmptyFiles]
NoContent == Content("none", "none")

----------------------------------------------------------------------------
(* BrowserBuilder.__init__: the per-browser table and the derived names.   *)

browser_configs ==
    [firefox |-> [exe_name |-> "firefox.exe"],
     floorp  |-> [exe_name |-> "floorp.exe"],
     zen     |-> [exe_name |-> "zen.exe"]]

\* A variant of line 39 that only rejects a missing identifier.
SupportedAny(b) == Lower(b) # ""

\* Line 39.
Supported(b) == Lower(b) \in DOMAIN browser_configs

config == browser_configs[Lower(args.browser)]

installer_name == Lower(args.browser) \o "_installer.exe"

archive_name == args.browser \o "_Portable_" \o Str(version) \o ".7z"

----------------------------------------------------------------------------
(* Installer payloads.  A payload unpacks to a tree: the sequence of its   *)
(* directories in os.walk order, the scratch root first, each with the     *)
(* names of its plain files.  Subdirectories sit directly under the root.  *)

RootPath == "."
DirNames == {"core", "app"}
TreeFileNames == {"firefox.exe", "Firefox.EXE", "zen.exe", "Setup.exe", "portable.ini"}

FileSets(universe, max) == {S \in SUBSET universe : Cardinality(S) <= max}

TreeDirs(paths) ==
    [path : paths, files : FileSets(TreeFileNames, MaxFiles)]

Trees ==
    {t \in UNION {[1..n -> TreeDirs({RootPath} \cup DirNames)] : n \in 1..MaxDirs} :
        /\ t[1].path = RootPath
        /\ \A i \in 2..Len(t) : t[i].path # RootPath
        /\ \A i, j \in 2..Len(t) : i # j => t[i].path # t[j].path}

EmptyTree == <<[path |-> RootPath, files |-> {}]>>

\* temp_build/extracted holding tree t, and its absence.
Scratch(t) == [exists |-> TRUE, tree |-> t]
NoScratch == [exists |-> FALSE, tree |-> << >>]

\* The installer file: the URL its bytes came from, the tree they unpack to,
\* and whether the body was written to the end.
Payload(u, t, whole) == [exists |-> TRUE, url |-> u, tree |-> t, whole |-> whole]
NoFile == [exists |-> FALSE, url |-> None, tree |-> << >>, whole |-> FALSE]

----------------------------------------------------------------------------
(* __main__, lines 328-335: how a method call of the try block ends.       *)

\* The call returned: go on with the statement at label next.
Return(next) == pc' = next /\ exit_code' = exit_code

\* A variant of lines 333-335 whose handler logs the error and exits 0.
RaiseLogged == pc' = "exit" /\ exit_code' = 0

\* An Exception escaped the call: line 333 catches it, line 335 exits 1.
Raise == pc' = "exit" /\ exit_code' = 1

\* sys.exit(n): SystemExit is no Exception, so line 333 lets it through.
SysExit(n) == pc' = "exit" /\ exit_code' = n

Request(kind, target, status) == [kind |-> kind, target |-> target, status |-> status]

----------------------------------------------------------------------------
(* BrowserBuilder(args), lines 16-42.                                      *)

Construct ==
    /\ pc = "__init__"
    /\ stages' = Append(stages, "__init__")
    /\ version' = args.version
    /\ url' = args.url
    /\ IF Supported(args.browser)
       THEN Return("fetch_latest_version")
       ELSE Raise
    /\ UNCHANGED <<other, args, environ, libportable, launcher_file, temp_dir,
                   installer, extracted, output_dir, core, out_launcher,
                   archive, github_output, requests, rmtree_calls, sevenz,
                   source_core, inject_log>>

----------------------------------------------------------------------------
(* fetch_latest_version(), lines 44-99.                                    *)

\* What the release APIs answer: a status (0: the request itself failed),
\* the version they report, the installer asset they list.
ApiStatuses == {200, 500, 0}
ApiVersions == {"v2"}
FloorpAsset == "https://github.com/Floorp-Projects/Floorp/releases/download/v2/floorp-windows-x86_64.installer.exe"
ZenAsset == "https://github.com/zen-browser/desktop/releases/download/v2/zen.installer.exe"
ZenFallback == "https://github.com/zen-browser/desktop/releases/latest/download/zen.installer.exe"

\* Line 59.
FirefoxUrl(v) ==
    "https://download-installer.cdn.mozilla.net/pub/firefox/releases/" \o Str(v)
    \o "/win64/en-US/Firefox%20Setup%20" \o Str(v) \o ".exe"

\* Line 46: both values are there, nothing is fetched.
HaveBoth == Truthy(version) /\ Truthy(url)

\* Lines 51-62.
FetchFirefox ==
    /\ Lower(args.browser) = "firefox"
    /\ \E status \in ApiStatuses, v \in ApiVersions \cup {None} :
         /\ status # 200 => v = None
         /\ requests' = Append(requests, Request("release_source", "firefox", status))
         /\ IF status = 200
            THEN /\ version' = v
                 /\ url' = FirefoxUrl(v)
                 /\ Return("check_remote_release")
            ELSE /\ UNCHANGED <<version, url>>
                 /\ Raise

\* Lines 64-79.
FetchFloorp ==
    /\ Lower(args.browser) = "floorp"
    /\ \E status \in ApiStatuses, tag \in ApiVersions, asset \in {None, FloorpAsset} :
         /\ status # 200 => asset = None
         /\ requests' = Append(requests, Request("release_source", "floorp", status))
         /\ IF status = 200
            THEN /\ version' = tag
                 /\ url' = IF asset # None THEN asset ELSE url
                 /\ IF Truthy(url') THEN Return("check_remote_release") ELSE Raise
            ELSE /\ UNCHANGED <<version, url>>
                 /\ Raise

\* Lines 81-96.
FetchZen ==
    /\ Lower(args.browser) = "zen"
    /\ \E status \in ApiStatuses, tag \in ApiVersions, asset \in {None, ZenAsset} :
         /\ status # 200 => asset = None
         /\ requests' = Append(requests, Request("release_source", "zen", status))
         /\ IF status = 200
            THEN /\ version' = tag
                 /\ url' = IF asset # None THEN asset
                           ELSE IF Truthy(url) THEN url ELSE ZenFallback
                 /\ Return("check_remote_release")
            ELSE /\ UNCHANGED <<version, url>>
                 /\ Raise

FetchLatestVersion ==
    /\ pc = "fetch_latest_version"
    /\ stages' = Append(stages, "fetch_latest_version")
    /\ \/ /\ HaveBoth
          /\ Return("check_remote_release")
          /\ UNCHANGED <<version, url, requests>>
       \/ /\ ~HaveBoth
          /\ (FetchFirefox \/ FetchFloorp \/ FetchZen)
    /\ UNCHANGED <<other, args, environ, libportable, launcher_file, temp_dir,
                   installer, extracted, output_dir, core, out_launcher,
                   archive, github_output, rmtree_calls, sevenz, source_core,
                   inject_log>>

----------------------------------------------------------------------------
(* check_remote_release(), lines 274-307.                                  *)

\* Replies of the release-lookup endpoint; 0: requests.get raised.
LookupReplies == {200, 404, 500, 0}

\* Lines 276-285: the lookup is made.
Looks ==
    /\ "GITHUB_REPOSITORY" \in environ
    /\ "GITHUB_TOKEN" \in environ
    /\ Truthy(version)

\* A variant of line 299 that takes every reply but 404 for a published release.
ReleaseExistsUnless404(status) == status # 404

\* Line 299: the release is already published.
ReleaseExists(status) == status = 200

CheckRemoteRelease ==
    /\ pc = "check_remote_release"
    /\ stages' = Append(stages, "check_remote_release")
    /\ IF Looks
       THEN \E status \in LookupReplies :
              /\ requests' = Append(requests, Request("release_lookup", version, status))
              /\ IF ReleaseExists(status) THEN SysExit(0) ELSE Return("download")
       ELSE /\ Return("download")
            /\ UNCHANGED requests
    /\ UNCHANGED <<other, args, environ, libportable, launcher_file, version, url,
                   temp_dir, installer, extracted, output_dir, core,
                   out_launcher, archive, github_output, rmtree_calls, sevenz,
                   source_core, inject_log>>

----------------------------------------------------------------------------
(* download(), lines 101-116.                                              *)

\* Payloads the installer URL of a run may serve.
RunTrees == {EmptyTree, <<[path |-> RootPath, files |-> {"firefox.exe"}]>>}

\* A variant of line 105 that takes only a completely written file.
AlreadyThereWhole == installer.exists /\ installer.whole

\* A variant of line 105 that never finds the file.
AlwaysFetch == FALSE

\* Line 105: installer_path.exists().
AlreadyThere == installer.exists

\* "failed": no response or an error status (lines 110-111), nothing written;
\* "broken": the stream ended after the file was opened (lines 112-114).
Transfers == {"ok", "failed", "broken"}

Download ==
    /\ pc = "download"
    /\ stages' = Append(stages, "download")
    /\ temp_dir' = TRUE
    /\ IF AlreadyThere
       THEN /\ Return("extract")
            /\ UNCHANGED <<installer, requests>>
       ELSE \E how \in Transfers, t \in RunTrees :
              /\ how = "failed" => t = EmptyTree
              /\ requests' = Append(requests,
                    Request("installer", url, IF how = "failed" THEN 0 ELSE 200))
              /\ installer' = IF how = "failed" THEN installer
                              ELSE Payload(url, t, how = "ok")
              /\ IF how = "ok" THEN Return("extract") ELSE Raise
    /\ UNCHANGED <<other, args, environ, libportable, launcher_file, version, url,
                   extracted, output_dir, core, out_launcher, archive,
                   github_output, rmtree_calls, sevenz, source_core, inject_log>>

----------------------------------------------------------------------------
(* extract(), lines 118-174.                                               *)

\* Lines 139-145: delete every file named setup.exe, whatever its case.
RemoveSetup(t) ==
    [i \in DOMAIN t |->
        [t[i] EXCEPT !.files = {f \in @ : Lower(f) # "setup.exe"}]]

\* Line 154: (extract_dir / "core").exists().
HasCore(t) == \E i \in 2..Len(t) : t[i].path = "core"

\* Line 159: self.config["exe_name"] in files.
HoldsExe(d, exe_name) == exe_name \in d.files

\* A variant of lines 151-164 that looks for the executable before core.
DiscoverExeFirst(t, exe_name) ==
    IF \E i \in DOMAIN t : HoldsExe(t[i], exe_name)
    THEN LET first == CHOOSE i \in DOMAIN t :
                         /\ HoldsExe(t[i], exe_name)
                         /\ \A j \in 1..(i - 1) : ~HoldsExe(t[j], exe_name)
         IN  t[first].path
    ELSE IF HasCore(t) THEN "core" ELSE RootPath

\* Lines 151-164: the directory extract relocates.
Discover(t, exe_name) ==
    IF HasCore(t) THEN "core"
    ELSE IF \E i \in DOMAIN t : HoldsExe(t[i], exe_name)
         THEN LET first == CHOOSE i \in DOMAIN t :
                              /\ HoldsExe(t[i], exe_name)
                              /\ \A j \in 1..(i - 1) : ~HoldsExe(t[j], exe_name)
              IN  t[first].path
         ELSE RootPath

DirAt(t, p) == t[CHOOSE i \in DOMAIN t : t[i].path = p]

\* What is left in temp_build/extracted once p has been moved away.
WithoutDir(t, p) ==
    IF p = RootPath THEN NoScratch
    ELSE Scratch( LET keep == {i \in DOMAIN t : t[i].path # p}
             Nth(k) == CHOOSE i \in keep : Cardinality({j \in keep : j < i}) = k - 1
         IN  [k \in 1..Cardinality(keep) |-> t[Nth(k)]])

\* Outcomes of the archive tool found through PATH (line 128).
FirstTry == {"ok", "not_found", "failed"}

\* The positions of a process between its extract and the end of its
\* create_archive: it is working on output/core.
Building == {"inject", "add_launcher", "create_archive"}

\* A variant of lines 118-122 in which extract waits while another process
\* is working on output/core.
EntersExtractAlone == pc = "extract" /\ other.pc \notin Building

\* Lines 313, 118-122: extract is entered when download has returned; it
\* takes no lock and does not look for another process in the workspace
\* before it removes temp_build/extracted.
EntersExtract == pc = "extract"

Extract ==
    /\ EntersExtract
    /\ \E first \in FirstTry, default_exists \in BOOLEAN, second \in {"ok", "failed"} :
         LET unpacked == \/ first = "ok"
                         \/ default_exists /\ second = "ok"
             ran1 == IF first = "not_found" THEN << >> ELSE <<first>>
             ran2 == IF first # "ok" /\ default_exists THEN <<second>> ELSE << >>
             tree == RemoveSetup(installer.tree)
             src == Discover(tree, config.exe_name)
         IN  \* default_exists and second are read only on the paths that use them
             /\ first = "ok" => (~default_exists /\ second = "ok")
             /\ ~default_exists => second = "ok"
             /\ stages' = Append(stages, "extract")
             /\ sevenz' = [sevenz EXCEPT !.extract = @ \o ran1 \o ran2]
             /\ rmtree_calls' =
                    rmtree_calls
                    \cup (IF extracted.exists THEN {"temp_build/extracted"} ELSE {})
                    \cup (IF unpacked /\ core.exists THEN {"output/core"} ELSE {})
             /\ IF unpacked
                THEN /\ extracted' = WithoutDir(tree, src)
                     /\ output_dir' = TRUE
                     /\ source_core' = src
                     /\ core' = Dir(FromInstaller(DirAt(tree, src).files))
                     /\ Return("inject")
                ELSE /\ extracted' = Scratch(EmptyTree)
                     /\ Raise
                     /\ UNCHANGED <<output_dir, source_core, core>>
    /\ UNCHANGED <<other, args, environ, libportable, launcher_file, version, url,
                   temp_dir, installer, out_launcher, archive, github_output,
                   requests, inject_log>>

----------------------------------------------------------------------------
(* inject(), lines 176-242.                                                *)

LibNames == {"upcheck.exe", "upcheck64.exe", "upcheck32.exe", "setdll.exe",
             "portable32.dll", "portable64.dll", "portable.ini",
             "portable(example).ini"}

\* The support-file sets: every file holds the bytes shipped under its name.
Libs == {[n \in S |-> Content("lib", n)] : S \in FileSets(LibNames, MaxLibFiles)}

\* Lines 183-185: copy the plain files of libportable into core_dir.
CopySupport(d, lib) == CopyAll(lib, d)

\* Lines 191-192: upcheck64.exe becomes upcheck.exe.
Take64(d) ==
    IF "upcheck64.exe" \in DOMAIN d
    THEN MoveFile(d, "upcheck64.exe", "upcheck.exe")
    ELSE d

\* A variant of lines 194-200 without the test of line 194.
Take32Unguarded(d) ==
    IF "upcheck32.exe" \in DOMAIN d
    THEN MoveFile(d, "upcheck32.exe", "upcheck.exe")
    ELSE d

\* Lines 194-200: without upcheck.exe, upcheck32.exe becomes upcheck.exe.
Take32(d) ==
    IF "upcheck.exe" \notin DOMAIN d /\ "upcheck32.exe" \in DOMAIN d
    THEN MoveFile(d, "upcheck32.exe", "upcheck.exe")
    ELSE d

Normalize(d) == Take32(Take64(d))

\* Lines 194-202: inject returns early when no helper could be put in place.
Skips(d) == "upcheck.exe" \notin DOMAIN Normalize(d)

\* Lines 220-236: removal of the injection tooling.
Cleanup(d) ==
    RemoveFiles(d, {n \in DOMAIN d : Glob("upcheck", ".exe", n)}
                   \cup {n \in DOMAIN d : Glob("setdll", ".exe", n)}
                   \cup {"portable32.dll", "upcheck32.exe"})

\* A variant of lines 239-242 without the test for an existing portable.ini.
MaterializeOverwrites(d) ==
    IF "portable(example).ini" \in DOMAIN d
    THEN PutFile(d, "portable.ini", d["portable(example).ini"])
    ELSE d

\* Lines 239-242: portable.ini from portable(example).ini.
Materialize(d) ==
    IF "portable(example).ini" \in DOMAIN d /\ "portable.ini" \notin DOMAIN d
    THEN PutFile(d, "portable.ini", d["portable(example).ini"])
    ELSE d

\* Outcomes of subprocess.run([upcheck, "-dll"]) (lines 204-217).
HelperRuns == {"exit_zero", "exit_nonzero", "launch_failed"}

\* A variant of lines 209-217 in which a non-zero exit code is an error too.
HelperFatalNonZero(run) == run # "exit_zero"

\* Lines 209-217: a non-zero exit code is logged as a warning (209-213);
\* only an exception of subprocess.run is raised again (215-217).
HelperFatal(run) == run = "launch_failed"

\* The files of core_dir when inject is left, where it gets past line 180.
Injected(d, lib, run) ==
    LET copied == CopySupport(d, lib)
        ready  == Normalize(copied)
    IN  IF Skips(copied) \/ HelperFatal(run)
        THEN ready
        ELSE Materialize(Cleanup(ready))

Inject ==
    /\ pc = "inject"
    /\ stages' = Append(stages, "inject")
    /\ IF ~libportable.exists
       THEN /\ Raise
            /\ inject_log' = [entry |-> core, copied |-> core,
                              helper |-> NoContent, outcome |-> "no_libportable"]
            /\ UNCHANGED core
       ELSE \E run \in HelperRuns :
              LET copied == CopySupport(core.files, libportable.files)
                  skip   == Skips(copied)
              IN  \* run is read only when the helper is there to be run
                  /\ skip => run = "exit_zero"
                  /\ core' = Dir(Injected(core.files, libportable.files, run))
                  /\ inject_log' =
                        [entry   |-> core,
                         copied  |-> Dir(copied),
                         helper  |-> IF skip THEN NoContent
                                     ELSE Normalize(copied)["upcheck.exe"],
                         outcome |-> IF skip THEN "skipped" ELSE run]
                  /\ IF ~skip /\ HelperFatal(run)
                     THEN Raise
                     ELSE Return("add_launcher")
    /\ UNCHANGED <<other, args, environ, libportable, launcher_file, version, url,
                   temp_dir, installer, extracted, output_dir, out_launcher,
                   archive, github_output, requests, rmtree_calls, sevenz,
                   source_core>>

----------------------------------------------------------------------------
(* add_launcher(), lines 244-249.                                          *)

AddLauncher ==
    /\ pc = "add_launcher"
    /\ stages' = Append(stages, "add_launcher")
    /\ out_launcher' = (out_launcher \/ (Truthy(args.launcher) /\ launcher_file))
    /\ Return("create_archive")
    /\ UNCHANGED <<other, args, environ, libportable, launcher_file, version, url,
                   temp_dir, installer, extracted, output_dir, core, archive,
                   github_output, requests, rmtree_calls, sevenz, source_core,
                   inject_log>>

----------------------------------------------------------------------------
(* create_archive(), lines 251-272.                                        *)

\* The archive file: its name, the URL of the installer whose payload is
\* under output/ when the archive tool packs it, and the files of
\* output/core it packs (line 261: output/*).
Archive(name, from, files) ==
    [exists |-> TRUE, name |-> name, from |-> from, files |-> files]
NoArchive == [exists |-> FALSE, name |-> None, from |-> None, files |-> EmptyFiles]

\* Outcomes of the archive tool at its default location (line 264).
SecondTry == {"ok", "not_found", "failed"}

CreateArchive ==
    /\ pc = "create_archive"
    /\ stages' = Append(stages, "create_archive")
    /\ \E first \in FirstTry, second \in SecondTry :
         LET packed == first = "ok" \/ second = "ok"
             ran1 == IF first = "not_found" THEN << >> ELSE <<first>>
             ran2 == IF first = "ok" \/ second = "not_found" THEN << >> ELSE <<second>>
         IN  \* second is read only when the first attempt did not succeed
             /\ first = "ok" => second = "ok"
             /\ sevenz' = [sevenz EXCEPT !.archive = @ \o ran1 \o ran2]
             /\ IF packed
                THEN /\ archive' = Archive(archive_name, installer.url, core.files)
                     /\ github_output' =
                           IF "GITHUB_OUTPUT" \in environ
                           THEN github_output \o
                                <<"artifact_path=" \o archive_name,
                                  "artifact_name=" \o archive_name,
                                  "version=" \o Str(version)>>
                           ELSE github_output
                     /\ SysExit(0)
                ELSE /\ archive' = NoArchive
                     /\ UNCHANGED github_output
                     /\ Raise
    /\ UNCHANGED <<other, args, environ, libportable, launcher_file, version, url,
                   temp_dir, installer, extracted, output_dir, core,
                   out_launcher, requests, rmtree_calls, source_core, inject_log>>

----------------------------------------------------------------------------
(* The whole run: the process starts with the parsed arguments, its        *)
(* environment and the workspace an earlier run may have left behind.      *)

Browsers == {"firefox", "Firefox", "floorp", "zen", "chrome"}
EnvSets == {{}, {"GITHUB_REPOSITORY"}, {"GITHUB_REPOSITORY", "GITHUB_TOKEN"},
            {"GITHUB_REPOSITORY", "GITHUB_TOKEN", "GITHUB_OUTPUT"}}
RunLibs == {NoDir, Dir(EmptyFiles),
            Dir([n \in {"upcheck64.exe"} |-> Content("lib", n)]),
            Dir([n \in {"upcheck64.exe", "portable(example).ini"} |-> Content("lib", n)])}
Leftovers == {NoFile} \cup {Payload("u0", t, TRUE) : t \in RunTrees}

NoInject == [entry |-> NoDir, copied |-> NoDir, helper |-> NoContent, outcome |-> "none"]

\* What a process holds of its own: the parsed arguments, the builder's
\* fields, its position in __main__ and its locals.  The workspace, the
\* environment and the libportable directory are shared.
Own ==
    [args |-> args, version |-> version, url |-> url, pc |-> pc,
     exit_code |-> exit_code, stages |-> stages, requests |-> requests,
     rmtree_calls |-> rmtree_calls, sevenz |-> sevenz,
     source_core |-> source_core, inject_log |-> inject_log]
NoProcess ==
    [args |-> [browser |-> None, version |-> None, url |-> None, launcher |-> None],
     version |-> None, url |-> None, pc |-> "none", exit_code |-> Running,
     stages |-> << >>, requests |-> << >>, rmtree_calls |-> {},
     sevenz |-> [extract |-> << >>, archive |-> << >>],
     source_core |-> None, inject_log |-> NoInject]

Init ==
    /\ args \in [browser : Browsers, version : {None, "v1"}, url : {None, "u1"},
                 launcher : {None, "start.bat"}]
    /\ environ \in EnvSets
    /\ libportable \in RunLibs
    /\ launcher_file \in {b \in BOOLEAN : b => Truthy(args.launcher)}
    /\ version = None
    /\ url = None
    /\ installer \in Leftovers
    /\ temp_dir = installer.exists
    /\ extracted = NoScratch
    /\ output_dir = FALSE
    /\ core = NoDir
    /\ out_launcher = FALSE
    /\ archive = NoArchive
    /\ github_output = << >>
    /\ pc = "__init__"
    /\ exit_code = Running
    /\ stages = << >>
    /\ requests = << >>
    /\ rmtree_calls = {}
    /\ sevenz = [extract |-> << >>, archive |-> << >>]
    /\ source_core = None
    /\ inject_log = NoInject
    /\ other = NoProcess

Next ==
    \/ Construct
    \/ FetchLatestVersion
    \/ CheckRemoteRelease
    \/ Download
    \/ Extract
    \/ Inject
    \/ AddLauncher
    \/ CreateArchive

Spec == Init /\ [][Next]_vars

----------------------------------------------------------------------------
(* States in which extract() is entered: download() has returned the       *)
(* installer path; temp_build/extracted and output/core are absent, or     *)
(* were left behind by an earlier run.                                     *)

InitExtract ==
    /\ \E b \in {"firefox", "Firefox", "zen"} :
         args = [browser |-> b, version |-> "v1", url |-> "u1", launcher |-> None]
    /\ environ = {}
    /\ libportable = NoDir
    /\ launcher_file = FALSE
    /\ version = "v1"
    /\ url = "u1"
    /\ temp_dir = TRUE
    /\ \E t \in Trees : installer = Payload("u1", t, TRUE)
    /\ \E earlier \in BOOLEAN :
         /\ extracted = IF earlier THEN Scratch(EmptyTree) ELSE NoScratch
         /\ core = IF earlier THEN Dir(EmptyFiles) ELSE NoDir
         /\ output_dir = earlier
    /\ out_launcher = FALSE
    /\ archive = NoArchive
    /\ github_output = << >>
    /\ pc = "extract"
    /\ exit_code = Running
    /\ stages = <<"__init__", "fetch_latest_version", "check_remote_release", "download">>
    /\ requests = << >>
    /\ rmtree_calls = {}
    /\ sevenz = [extract |-> << >>, archive |-> << >>]
    /\ source_core = None
    /\ inject_log = NoInject
    /\ other = NoProcess

NextExtract == Extract

SpecExtract == InitExtract /\ [][NextExtract]_vars

----------------------------------------------------------------------------
(* States in which inject() is entered: extract() has relocated a          *)
(* directory of the payload to output/core.                                *)

CoreDirs ==
    {Dir(FromInstaller(DirAt(RemoveSetup(<<[path |-> RootPath, files |-> S]>>),
                             RootPath).files)) :
        S \in FileSets(TreeFileNames, MaxFiles)}

InitInject ==
    /\ args = [browser |-> "firefox", version |-> "v1", url |-> "u1", launcher |-> None]
    /\ environ = {}
    /\ libportable \in {NoDir} \cup {Dir(l) : l \in Libs}
    /\ launcher_file = FALSE
    /\ version = "v1"
    /\ url = "u1"
    /\ temp_dir = TRUE
    /\ installer = Payload("u1", EmptyTree, TRUE)
    /\ extracted = NoScratch
    /\ output_dir = TRUE
    /\ core \in CoreDirs
    /\ out_launcher = FALSE
    /\ archive = NoArchive
    /\ github_output = << >>
    /\ pc = "inject"
    /\ exit_code = Running
    /\ stages = <<"__init__", "fetch_latest_version", "check_remote_release", "download",
                 "extract">>
    /\ requests = << >>
    /\ rmtree_calls = {}
    /\ sevenz = [extract |-> <<"ok">>, archive |-> << >>]
    /\ source_core = RootPath
    /\ inject_log = NoInject
    /\ other = NoProcess

NextInject == Inject

SpecInject == InitInject /\ [][NextInject]_vars

----------------------------------------------------------------------------
(* A sequence of runs in one workspace: when the process has exited,       *)
(* build.py is started again for the same browser.  Nothing of the old     *)
(* process is left but the files it wrote; no statement of build.py        *)
(* removes temp_build, output or the archive between two runs.             *)

RerunVersions == {None, "v1", "v3"}
RerunUrls == {None, "u1", "u3"}

StartAgain ==
    /\ pc = "exit"
    /\ \E v \in RerunVersions, u \in RerunUrls :
          args' = [args EXCEPT !.version = v, !.url = u]
    /\ version' = None
    /\ url' = None
    /\ pc' = "__init__"
    /\ exit_code' = Running
    /\ stages' = << >>
    /\ requests' = << >>
    /\ rmtree_calls' = {}
    /\ sevenz' = [extract |-> << >>, archive |-> << >>]
    /\ source_core' = None
    /\ inject_log' = NoInject
    /\ UNCHANGED <<other, environ, libportable, launcher_file, temp_dir,
                   installer, extracted, output_dir, core, out_launcher,
                   archive, github_output>>

InitRerun ==
    /\ args \in [browser : {"firefox", "zen"}, version : {None, "v1"},
                 url : {None, "u1"}, launcher : {None}]
    /\ environ = {}
    /\ libportable \in RunLibs \ {NoDir}
    /\ launcher_file = FALSE
    /\ version = None
    /\ url = None
    /\ installer = NoFile
    /\ temp_dir = FALSE
    /\ extracted = NoScratch
    /\ output_dir = FALSE
    /\ core = NoDir
    /\ out_launcher = FALSE
    /\ archive = NoArchive
    /\ github_output = << >>
    /\ pc = "__init__"
    /\ exit_code = Running
    /\ stages = << >>
    /\ requests = << >>
    /\ rmtree_calls = {}
    /\ sevenz = [extract |-> << >>, archive |-> << >>]
    /\ source_core = None
    /\ inject_log = NoInject
    /\ other = NoProcess

NextRerun ==
    \/ Next
    \/ StartAgain

SpecRerun == InitRerun /\ [][NextRerun]_vars

----------------------------------------------------------------------------
(* Two build.py processes in one workspace.  Each stage of a process is    *)
(* one step, and the processes take their steps in any order: Switch       *)
(* hands the processor to the other one.  Interleavings inside a stage     *)
(* are left out; every behaviour here is one the two processes can show.   *)

Switch ==
    /\ other.pc # "none"
    /\ other' = Own
    /\ args' = other.args
    /\ version' = other.version
    /\ url' = other.url
    /\ pc' = other.pc
    /\ exit_code' = other.exit_code
    /\ stages' = other.stages
    /\ requests' = other.requests
    /\ rmtree_calls' = other.rmtree_calls
    /\ sevenz' = other.sevenz
    /\ source_core' = other.source_core
    /\ inject_log' = other.inject_log
    /\ UNCHANGED <<environ, libportable, launcher_file, temp_dir, installer,
                   extracted, output_dir, core, out_launcher, archive,
                   github_output>>

InitRace ==
    /\ args = [browser |-> "firefox", version |-> "v1", url |-> "u1", launcher |-> None]
    /\ other = [NoProcess EXCEPT
                  !.args = [browser |-> "firefox", version |-> "v3", url |-> "u3",
                            launcher |-> None],
                  !.pc = "__init__"]
    /\ environ = {}
    /\ libportable =
          Dir([n \in {"upcheck64.exe", "portable(example).ini"} |-> Content("lib", n)])
    /\ launcher_file = FALSE
    /\ version = None
    /\ url = None
    /\ installer = NoFile
    /\ temp_dir = FALSE
    /\ extracted = NoScratch
    /\ output_dir = FALSE
    /\ core = NoDir
    /\ out_launcher = FALSE
    /\ archive = NoArchive
    /\ github_output = << >>
    /\ pc = "__init__"
    /\ exit_code = Running
    /\ stages = << >>
    /\ requests = << >>
    /\ rmtree_calls = {}
    /\ sevenz = [extract |-> << >>, archive |-> << >>]
    /\ source_core = None
    /\ inject_log = NoInject

NextRace ==
    \/ Next
    \/ Switch

SpecRace == InitRace /\ [][NextRace]_vars

----------------------------------------------------------------------------
(* Properties.                                                             *)

Range(q) == {q[i] : i \in DOMAIN q}
Sent(kind) == {i \in DOMAIN requests : requests[i].kind = kind}
LaterStages == {"download", "extract", "inject", "add_launcher", "create_archive"}
Tooling(n) == Glob("upcheck", ".exe", n) \/ Glob("setdll", ".exe", n) \/ n = "portable32.dll"
InjectReturned == inject_log.outcome \in {"skipped", "exit_zero", "exit_nonzero"}
ExtractReturned == pc = "inject"
CoreOf(t) == t[CHOOSE i \in 2..Len(t) : t[i].path = "core"]

\* C1: whenever inject returns without raising, helper run or skipped, the
\* application directory holds no upcheck*.exe, no setdll*.exe and no
\* portable32.dll.  (SpecInject; refuted on the path that returns at line 202.)
C1_NoToolingLeft ==
    InjectReturned => \A n \in DOMAIN core.files : ~Tooling(n)

\* C2: a release lookup is made for the exact resolved version; on reply 200
\* the run has exited with code 0 and none of download, extract, inject,
\* add_launcher, create_archive has run or left anything on disk; on any
\* other reply, and on a request error, the run goes on to download.
C2_ReleaseShortCircuit ==
    \A i \in Sent("release_lookup") :
        /\ requests[i].target = version
        /\ {"GITHUB_REPOSITORY", "GITHUB_TOKEN"} \subseteq environ
        /\ IF requests[i].status = 200
           THEN /\ pc = "exit"
                /\ exit_code = 0
                /\ Range(stages) \cap LaterStages = {}
                /\ Sent("installer") = {}
                /\ ~extracted.exists /\ ~core.exists /\ ~archive.exists
                /\ installer \in Leftovers
           ELSE pc = "download" \/ "download" \in Range(stages)

C2_Witness ==
    /\ \E i \in Sent("release_lookup") : requests[i].status = 200
    /\ pc = "exit"
    /\ exit_code = 0

\* C3: every run that entered the pipeline has, when the process exits,
\* attempted to remove temp_build.  (Refuted: nothing removes temp_build.)
C3_TempDirRemovalAttempted ==
    (pc = "exit" /\ "fetch_latest_version" \in Range(stages))
        => "temp_build" \in rmtree_calls

\* C4: when the unpacked tree has a directory core at its root, extract
\* selects it and output/core holds its files, whichever other directory
\* holds the configured executable.
C4_CoreDirWins ==
    (ExtractReturned /\ \E i \in 2..Len(installer.tree) : installer.tree[i].path = "core")
        => /\ source_core = "core"
           /\ core = Dir(FromInstaller({f \in CoreOf(installer.tree).files :
                                           Lower(f) # "setup.exe"}))
           /\ extracted.exists
           /\ \A i \in DOMAIN extracted.tree : extracted.tree[i].path # "core"

C4_Witness ==
    /\ ExtractReturned
    /\ source_core = "core"
    /\ \E i \in DOMAIN installer.tree :
          /\ installer.tree[i].path # "core"
          /\ config.exe_name \in installer.tree[i].files

\* C5: without a core directory, extract selects the first directory of the
\* walk holding a file whose name equals the executable name ignoring case,
\* and the scratch root only when there is none.  (SpecExtract; refuted: the
\* comparison of line 159 is exact.)
NamedLikeExe(d) == \E f \in d.files : Lower(f) = Lower(config.exe_name)
C5_CaseInsensitiveExe ==
    (ExtractReturned /\ \A i \in DOMAIN installer.tree : installer.tree[i].path # "core")
        => LET t == installer.tree
               hits == {i \in DOMAIN t : NamedLikeExe(t[i])}
           IN  source_core = IF hits = {} THEN RootPath
                             ELSE t[CHOOSE i \in hits : \A j \in hits : i <= j].path

\* C6: once the support files are copied, a lone upcheck32.exe is the helper
\* run as upcheck.exe, and with upcheck64.exe and upcheck32.exe both there
\* the helper run as upcheck.exe is the 64-bit one.
C6_HelperNormalization ==
    LET c == inject_log.copied.files
        has(n) == n \in DOMAIN c
    IN  inject_log.outcome \notin {"none", "no_libportable"} =>
          /\ (has("upcheck32.exe") /\ ~has("upcheck64.exe") /\ ~has("upcheck.exe"))
                => /\ inject_log.outcome \in HelperRuns
                   /\ inject_log.helper = c["upcheck32.exe"]
          /\ (has("upcheck32.exe") /\ has("upcheck64.exe"))
                => /\ inject_log.outcome \in HelperRuns
                   /\ inject_log.helper = c["upcheck64.exe"]

C6_Witness ==
    /\ {"upcheck32.exe", "upcheck64.exe"} \subseteq DOMAIN inject_log.copied.files
    /\ inject_log.outcome = "exit_zero"
    /\ inject_log.helper = Content("lib", "upcheck64.exe")

\* C7 as claimed: a portable.ini present when inject is entered has the same
\* content when inject is left.  (Refuted: lines 183-185 copy a portable.ini
\* of the support files over it.)
C7_LiveConfigKept ==
    (inject_log.outcome # "none" /\ "portable.ini" \in DOMAIN inject_log.entry.files)
        => /\ "portable.ini" \in DOMAIN core.files
           /\ core.files["portable.ini"] = inject_log.entry.files["portable.ini"]

\* C7 as amended: a portable.ini present when inject is entered has the same
\* content when inject is left, with or without portable(example).ini,
\* provided the support files hold no portable.ini of their own.
C7_LiveConfigKeptUnlessShipped ==
    "portable.ini" \notin DOMAIN libportable.files => C7_LiveConfigKept

C7_Witness ==
    /\ inject_log.outcome = "exit_zero"
    /\ "portable.ini" \in DOMAIN inject_log.entry.files
    /\ "portable.ini" \notin DOMAIN libportable.files
    /\ "portable(example).ini" \in DOMAIN core.files
    /\ core.files["portable.ini"] = Content("inst", "portable.ini")

\* C8: a download entered with the installer file in place returns to the
\* caller, sends no request and leaves the file as it is.
C8_DownloadSkips ==
    [][(pc = "download" /\ installer.exists)
          => (pc' = "extract" /\ requests' = requests /\ installer' = installer)]_vars

C8_Witness ==
    /\ pc = "extract"
    /\ installer.exists
    /\ Sent("installer") = {}

\* C9: with a browser identifier whose lower-case form is none of firefox,
\* floorp, zen, the only step of the run is the exit with code 1: no request
\* is sent and nothing in the workspace is created, changed or removed.
C9_UnsupportedBrowser ==
    [][Lower(args.browser) \notin {"firefox", "floorp", "zen"}
          => /\ pc' = "exit" /\ exit_code' = 1
             /\ requests' = << >>
             /\ UNCHANGED <<temp_dir, installer, extracted, output_dir, core,
                            out_launcher, archive, github_output, rmtree_calls>>]_vars

C9_Witness ==
    /\ Lower(args.browser) \notin {"firefox", "floorp", "zen"}
    /\ pc = "exit"
    /\ exit_code = 1

\* C10: with neither version nor URL supplied the release source is queried;
\* with exactly one supplied the run fails without querying it and without
\* replacing the supplied value.  (Refuted: line 46 fetches unless both are
\* supplied.)
C10_OneWithoutOtherFails ==
    LET past == pc \notin {"__init__", "fetch_latest_version"}
    IN  /\ (~Truthy(args.version) /\ ~Truthy(args.url) /\ past /\ Supported(args.browser))
              => Sent("release_source") # {}
        /\ (Truthy(args.version) # Truthy(args.url))
              => /\ Sent("release_source") = {}
                 /\ past => (pc = "exit" /\ exit_code = 1)
                 /\ past => (version = args.version /\ url = args.url)

\* C11: when the directory given as --libportable does not exist, the run
\* fails before the pipeline starts: no download, no extraction, and
\* output/core neither created nor replaced.  (Refuted: the path is first
\* tested at line 179, inside inject.)
C11_MissingLibportableFailsFirst ==
    ~libportable.exists =>
        /\ Range(stages) \cap {"download", "extract"} = {}
        /\ Sent("installer") = {}
        /\ ~core.exists
        /\ rmtree_calls = {}

\* C12: a helper that was launched and exited with a non-zero code does not
\* fail inject: the tooling is removed, portable.ini is materialized and the
\* run goes on to add_launcher and create_archive; a helper that could not
\* be launched makes inject raise, and the run ends with exit code 1 without
\* add_launcher or create_archive.
C12_HelperExitCode ==
    /\ inject_log.outcome = "exit_nonzero"
          => /\ \A n \in DOMAIN core.files : ~Tooling(n)
             /\ "portable(example).ini" \in DOMAIN inject_log.copied.files
                   => "portable.ini" \in DOMAIN core.files
             /\ pc \in {"add_launcher", "create_archive", "exit"}
             /\ pc = "exit" => "create_archive" \in Range(stages)
    /\ inject_log.outcome = "launch_failed"
          => /\ pc = "exit"
             /\ exit_code = 1
             /\ Range(stages) \cap {"add_launcher", "create_archive"} = {}
             /\ ~archive.exists
             /\ ~out_launcher

C12_Witness ==
    /\ inject_log.outcome = "exit_nonzero"
    /\ "portable.ini" \in DOMAIN core.files
    /\ pc = "exit"
    /\ exit_code = 0
    /\ archive.exists

StageOrder == <<"__init__", "fetch_latest_version", "check_remote_release", "download",
                "extract", "inject", "add_launcher", "create_archive">>
IsPrefix(p, q) == Len(p) <= Len(q) /\ p = SubSeq(q, 1, Len(p))
ShortCircuited == \E i \in Sent("release_lookup") : requests[i].status = 200

\* C13: the stages run in the order __init__, fetch_latest_version,
\* check_remote_release, download, extract, inject, add_launcher,
\* create_archive, each entered only when all before it have returned; once
\* a stage has raised nothing more runs, no archive exists, nothing was
\* written to GITHUB_OUTPUT and the exit code is 1.  Exit code 0 is reached
\* only by the release short circuit or by a packed archive.
C13_StagesInOrder ==
    /\ IsPrefix(stages, StageOrder)
    /\ pc # "exit" => /\ exit_code = Running
                      /\ Len(stages) < Len(StageOrder)
                      /\ pc = StageOrder[Len(stages) + 1]
    /\ pc = "exit" =>
          /\ ~ENABLED Next
          /\ IF (stages = StageOrder /\ archive.exists)
                \/ (stages = SubSeq(StageOrder, 1, 3) /\ ShortCircuited)
             THEN exit_code = 0
             ELSE /\ exit_code = 1
                  /\ ~archive.exists
                  /\ github_output = << >>

C13_Witness ==
    /\ pc = "exit"
    /\ exit_code = 1
    /\ stages = SubSeq(StageOrder, 1, 5)
    /\ installer.exists

\* C14: whenever inject returns without raising and portable(example).ini
\* is in the application directory, portable.ini is there too, also when
\* the helper was skipped because no variant of it was present.  (Refuted:
\* the return at line 202 comes before lines 238-242.)
C14_ConfigMaterialized ==
    (InjectReturned /\ "portable(example).ini" \in DOMAIN core.files)
        => "portable.ini" \in DOMAIN core.files

\* C15: no stage runs unless the stage before it left a non-empty output,
\* and a run in which a stage skipped its work never packs an archive and
\* exits 0: extract is entered only with a whole, non-empty installer,
\* inject only with a non-empty application directory, add_launcher only
\* after the helper has run.  (Refuted: no stage tests what it is handed.)
C15_PrerequisitesChecked ==
    /\ "extract" \in Range(stages)
          => installer.exists /\ installer.whole /\ installer.tree # EmptyTree
    /\ "inject" \in Range(stages)
          => inject_log.entry.exists /\ DOMAIN inject_log.entry.files # {}
    /\ "add_launcher" \in Range(stages)
          => inject_log.outcome \in {"exit_zero", "exit_nonzero"}
    /\ (pc = "exit" /\ exit_code = 0 /\ archive.exists)
          => /\ inject_log.outcome \in {"exit_zero", "exit_nonzero"}
             /\ DOMAIN inject_log.entry.files # {}
             /\ installer.tree # EmptyTree

FetchReturned == Len(stages) >= 2 /\ (pc = "exit" => Len(stages) > 2)

\* C16: the run never gets past fetch_latest_version without a version and
\* a download URL: when the release source reports no version, or lists no
\* matching installer asset, the run fails before check_remote_release and
\* download.  (Refuted: line 57 stores a missing LATEST_FIREFOX_VERSION as
\* None and line 59 formats it into the URL; line 93 substitutes a URL when
\* no zen asset matches.)
C16_VersionAndUrlResolved ==
    FetchReturned =>
        /\ Truthy(version)
        /\ Truthy(url)
        /\ (Sent("release_source") # {} /\ Lower(args.browser) = "floorp")
              => url = FloorpAsset
        /\ (Sent("release_source") # {} /\ Lower(args.browser) = "zen")
              => url = ZenAsset

\* C17: nothing is retried within a run: the archive tool is started at most
\* once by extract and at most once by create_archive, and when that one
\* process exits with a non-zero code the stage raises at once.  (Refuted:
\* the except clauses at lines 129 and 262 catch CalledProcessError and
\* start the tool again from its default location.)
C17_NoRetry ==
    /\ Len(sevenz.extract) <= 1
    /\ Len(sevenz.archive) <= 1
    /\ (sevenz.extract # << >> /\ sevenz.extract[1] = "failed")
          => (pc = "exit" /\ exit_code = 1 /\ stages = SubSeq(StageOrder, 1, 5))
    /\ (sevenz.archive # << >> /\ sevenz.archive[1] = "failed")
          => (pc = "exit" /\ exit_code = 1 /\ ~archive.exists)

Truncated == installer.exists /\ ~installer.whole
BrokenTransfer ==
    /\ stages = SubSeq(StageOrder, 1, 4)
    /\ pc = "exit"
    /\ \E i \in Sent("installer") : requests[i].status = 200

\* C18: a download that fails after the installer file was opened ends the
\* run with exit code 1 and leaves the truncated file at the installer
\* path; no step removes or rewrites it; a later run's download finds it,
\* returns it without a request, and extract is entered with it.
C18_TruncatedInstallerKept ==
    [][/\ BrokenTransfer' => (exit_code' = 1 /\ Truncated' /\ installer'.url = url')
       /\ Truncated =>
             /\ installer' = installer
             /\ pc = "download" => (pc' = "extract" /\ requests' = requests)
             /\ pc = "extract" => /\ Sent("installer") = {}
                                  /\ stages' = Append(stages, "extract")]_vars

C18_Witness ==
    /\ Truncated
    /\ "extract" \in Range(stages)
    /\ Sent("installer") = {}
    /\ installer.url # url

\* C20: in every sequence of runs in one workspace, download hands extract
\* an installer fetched from this run's resolved URL, and the archive
\* <browser>_Portable_<version>.7z a run packs is built from that payload,
\* never from an installer an earlier run fetched for another version or
\* URL.  (Refuted: the installer path holds no version, line 24, and an
\* existing file is returned as it is, lines 105-107.)
C20_ArchiveOfThisRun ==
    /\ (pc = "extract" \/ "extract" \in Range(stages)) => installer.url = url
    /\ (pc = "exit" /\ exit_code = 0 /\ stages = StageOrder)
          => (archive.name = archive_name /\ archive.from = url)

\* C19: two runs in one workspace are not kept apart.  No lock is taken:
\* whenever one process stands before extract while the other is between
\* its extract and the end of its create_archive, extract can run, and when
\* it unpacks it removes the output/core the other is working on and puts
\* its own tree there.  The witness is an interleaving in which a process
\* packs a tree that is not the one its inject left.
C19_NoLock ==
    (pc = "extract" /\ other.pc \in Building)
        => ENABLED (Extract /\ pc' = "inject" /\ "output/core" \in rmtree_calls')

C19_Witness ==
    /\ pc = "exit"
    /\ exit_code = 0
    /\ stages = StageOrder
    /\ "create_archive" \notin Range(other.stages)
    /\ "extract" \in Range(other.stages)
    /\ inject_log.outcome = "exit_zero"
    /\ archive.name = archive_name
    /\ archive.files # Injected(inject_log.entry.files, libportable.files, "exit_zero")

====
